---------------------------- MODULE Spec2Model ----------------------------
(***************************************************************************)
(* A model of the LC-3 virtual machine of this repository: the process     *)
(* (main.rs), the machine (vm/machine.rs), its memory with the memory-     *)
(* mapped keyboard (vm/memory.rs), the register file (vm/register.rs), the *)
(* opcode table (vm/ops/mod.rs) and the terminal capability (terminal/).   *)
(*                                                                         *)
(* Words are u16: every arithmetic result is reduced modulo 65536 exactly  *)
(* where the code wraps, and the places where the code uses a plain        *)
(* `+= 1` are modelled with the build's overflow checks (see               *)
(* overflow_checks).                                                       *)
(***************************************************************************)
EXTENDS Integers, Sequences, FiniteSets, TLC

(***************************************************************************)
(* Bounds of the exploration.                                              *)
(***************************************************************************)
\* the number of instructions fetched in one run
MaxSteps == 5
\* the number of characters that arrive on standard input in one run
MaxInput == 2
\* the number of program words of the generated load-test images
MaxWords == 2

(***************************************************************************)
(* u16 arithmetic, as the code computes it.                                *)
(***************************************************************************)
U16 == 65536

RECURSIVE Pow2(_)
Pow2(n) == IF n = 0 THEN 1 ELSE 2 * Pow2(n - 1)

\* x >> n on u16
Shr(x, n) == x \div Pow2(n)

\* x << n on u16 (bits shifted out are lost)
Shl(x, n) == (x * Pow2(n)) % U16

RECURSIVE BitAnd(_, _)
BitAnd(a, b) ==
    IF a = 0 \/ b = 0 THEN 0
    ELSE (a % 2) * (b % 2) + 2 * BitAnd(a \div 2, b \div 2)

RECURSIVE BitOr(_, _)
BitOr(a, b) ==
    IF a = 0 THEN b
    ELSE IF b = 0 THEN a
    ELSE (IF (a % 2) + (b % 2) > 0 THEN 1 ELSE 0) + 2 * BitOr(a \div 2, b \div 2)

\* !x on u16
BitNot(x) == (U16 - 1) - x

\* u16::wrapping_add
wrapping_add(a, b) == (a + b) % U16

(***************************************************************************)
(* vm/register.rs                                                          *)
(***************************************************************************)
R_R0 == 0
R_R7 == 7
R_PC == 8
R_COND == 9
R_COUNT == 10

FL_POS == 1
FL_ZRO == 2
FL_NEG == 4

(***************************************************************************)
(* vm/ops/mod.rs                                                           *)
(***************************************************************************)
OpNames ==
    << "BR", "ADD", "LD", "ST", "JSR", "AND", "LDR", "STR",
       "RTI", "NOT", "LDI", "STI", "JMP", "RES", "LEA", "TRAP" >>

\* OpCode::from_u16: Some(op) for 0..15, None otherwise
OpCode_from_u16(value) ==
    IF value \in 0..15 THEN OpNames[value + 1] ELSE "None"

\* a discriminant counted from 1
OpCode_as_u16_from1(op) == CHOOSE v \in 1..16 : OpNames[v] = op

\* `op as u16`: the discriminant of an OpCode
OpCode_as_u16(op) == CHOOSE v \in 0..15 : OpNames[v + 1] = op

TRAP_GETC == 32
TRAP_OUT == 33
TRAP_PUTS == 34
TRAP_IN == 35
TRAP_PUTSP == 36
TRAP_HALT == 37

(***************************************************************************)
(* vm/memory.rs.  The 65536 cells are kept as the function from the        *)
(* non-zero cells' addresses to their values: every other cell holds 0, as *)
(* Memory::new leaves it.                                                  *)
(***************************************************************************)
MEMORY_MAX == 65536
MR_KBSR == 65024
MR_KBDR == 65026

\* Memory::new
Memory_new == << >>

\* self.cells[address]
Cell(cells, address) ==
    IF address \in DOMAIN cells THEN cells[address] ELSE 0

\* Memory::write
Memory_write(cells, address, value) ==
    [a \in (DOMAIN cells \cup {address}) \ (IF value = 0 THEN {address} ELSE {})
        |-> IF a = address THEN value ELSE cells[a]]

(***************************************************************************)
(* vm/machine.rs: the pure helpers.                                        *)
(***************************************************************************)
PC_START == 12288

\* a sign extension whose mask starts one bit too high
sign_extend_gap(x, bit_count) ==
    IF BitAnd(Shr(x, bit_count - 1), 1) # 0
        THEN BitOr(x, Shl(65535, bit_count + 1))
        ELSE x

\* sign_extend(x, bit_count)
sign_extend(x, bit_count) ==
    IF BitAnd(Shr(x, bit_count - 1), 1) # 0
        THEN BitOr(x, Shl(65535, bit_count))
        ELSE x

\* update_flags that sets the new flag without clearing the others
update_flags_keep(regs, r) ==
    LET val == regs[r]
        flag == IF val = 0 THEN FL_ZRO
                ELSE IF Shr(val, 15) # 0 THEN FL_NEG
                ELSE FL_POS
    IN  [regs EXCEPT ![R_COND] = BitOr(regs[R_COND], flag)]

\* update_flags that tests bit 14 and up for the sign
update_flags_bit14(regs, r) ==
    LET val_ == regs[r]
        flag == IF val_ = 0 THEN FL_ZRO
                ELSE IF Shr(val_, 14) # 0 THEN FL_NEG
                ELSE FL_POS
    IN  [regs EXCEPT ![R_COND] = flag]

\* update_flags with the signs exchanged
update_flags_signs(regs, r) ==
    LET val == regs[r]
        flag == IF val = 0 THEN FL_ZRO
                ELSE IF Shr(val, 15) # 0 THEN FL_POS
                ELSE FL_NEG
    IN  [regs EXCEPT ![R_COND] = flag]

\* VM::update_flags(r), on a register file
update_flags(regs, r) ==
    LET val == regs[r]
        flag == IF val = 0 THEN FL_ZRO
                ELSE IF Shr(val, 15) # 0 THEN FL_NEG
                ELSE FL_POS
    IN  [regs EXCEPT ![R_COND] = flag]

\* a 3-bit register field of an instruction: (instr >> shift) & 0x7
RegField(instr, shift) == BitAnd(Shr(instr, shift), 7)


(***************************************************************************)
(* Results.  VMError has three kinds; InvalidOpCode carries a code.        *)
(***************************************************************************)
NoResult == [kind |-> "None", code |-> 0]
Ok == [kind |-> "Ok", code |-> 0]
Err_IO == [kind |-> "IO", code |-> 0]
Err_InvalidOpCode(c) == [kind |-> "InvalidOpCode", code |-> c]
Err_InvalidProgram == [kind |-> "InvalidProgram", code |-> 0]

(***************************************************************************)
(* Program images: a file is a byte stream, a 2-byte big-endian origin     *)
(* followed by 2-byte big-endian words (VM::load_program).                 *)
(***************************************************************************)
\* u16::from_be_bytes
from_be_bytes(hi, lo) == hi * 256 + lo

\* the two bytes of a word, big-endian (what an assembler writes)
to_be_bytes(w) == << w \div 256, w % 256 >>

RECURSIVE WordsToBytes(_)
WordsToBytes(ws) ==
    IF ws = << >> THEN << >> ELSE to_be_bytes(Head(ws)) \o WordsToBytes(Tail(ws))

ImageFile(origin, ws) ==
    [exists |-> TRUE, bytes |-> to_be_bytes(origin) \o WordsToBytes(ws)]

MissingFile == [exists |-> FALSE, bytes |-> << >>]

\* program.chunks_exact(2).map(from_be_bytes): a trailing odd byte is dropped
chunks_exact_words(bytes) ==
    [i \in 1..(Len(bytes) \div 2) |-> from_be_bytes(bytes[2 * i - 1], bytes[2 * i])]

\* Memory::load_image: the slice cells[start..end] exists only if end <= MEMORY_MAX
load_image_fits(origin, program) == origin + Len(program) <= MEMORY_MAX

RECURSIVE copy_from_slice(_, _, _)
copy_from_slice(cells, start, program) ==
    IF program = << >> THEN cells
    ELSE copy_from_slice(Memory_write(cells, start, Head(program)),
                         start + 1, Tail(program))

\* VM::load_program on a file: what it returns, or that it panics, and the memory
load_program(cells, file) ==
    IF ~file.exists \/ Len(file.bytes) < 2
        THEN [res |-> Err_IO, panic |-> FALSE, cells |-> cells]
    ELSE LET origin == from_be_bytes(file.bytes[1], file.bytes[2])
             words == chunks_exact_words(SubSeq(file.bytes, 3, Len(file.bytes)))
         IN  IF load_image_fits(origin, words)
                 THEN [res |-> Ok, panic |-> FALSE,
                       cells |-> copy_from_slice(cells, origin, words)]
                 ELSE [res |-> NoResult, panic |-> TRUE, cells |-> cells]

(***************************************************************************)
(* The instruction encodings used to write the input programs.             *)
(***************************************************************************)
I_BR(nzp, off9) == nzp * 512 + off9
I_ADDr(dr, sr1, sr2) == 1 * 4096 + dr * 512 + sr1 * 64 + sr2
I_ADDi(dr, sr1, imm5) == 1 * 4096 + dr * 512 + sr1 * 64 + 32 + imm5
I_LD(dr, off9) == 2 * 4096 + dr * 512 + off9
I_ST(sr, off9) == 3 * 4096 + sr * 512 + off9
I_JSR(off11) == 4 * 4096 + 2048 + off11
I_JSRR(base) == 4 * 4096 + base * 64
I_ANDr(dr, sr1, sr2) == 5 * 4096 + dr * 512 + sr1 * 64 + sr2
I_ANDi(dr, sr1, imm5) == 5 * 4096 + dr * 512 + sr1 * 64 + 32 + imm5
I_LDR(dr, base, off6) == 6 * 4096 + dr * 512 + base * 64 + off6
I_STR(sr, base, off6) == 7 * 4096 + sr * 512 + base * 64 + off6
I_RTI(low12) == 8 * 4096 + low12
I_NOT(dr, sr) == 9 * 4096 + dr * 512 + sr * 64 + 63
I_LDI(dr, off9) == 10 * 4096 + dr * 512 + off9
I_STI(sr, off9) == 11 * 4096 + sr * 512 + off9
I_JMP(base) == 12 * 4096 + base * 64
I_RES(low12) == 13 * 4096 + low12
I_LEA(dr, off9) == 14 * 4096 + dr * 512 + off9
I_TRAP(vect8) == 15 * 4096 + vect8
I_HALT == I_TRAP(TRAP_HALT)

(***************************************************************************)
(* The inputs: the command lines (lists of image files) the runs start     *)
(* from.  Programs sit at PC_START; auxiliary images sit at the ends of    *)
(* the address space.                                                      *)
(***************************************************************************)
At(ws) == ImageFile(PC_START, ws)

EnginePrograms ==
    { \* the single HALT of the specification's example
      << I_HALT >>,
      \* reach PC = 0xFFFF: R1 := !R0 = 0xFFFF, jump there
      << I_NOT(1, 0), I_JMP(1) >>,
      \* flags: negative, zero, a JSR (writes R7 only), positive
      << I_ADDi(1, 0, 31), I_ADDi(2, 1, 1), I_JSR(0), I_NOT(3, 2), I_HALT >>,
      << I_NOT(1, 0), I_ANDi(2, 1, 21), I_ANDr(3, 1, 2), I_ADDr(4, 1, 1), I_HALT >>,
      \* additions that pass 0xFFFF, with an immediate and with registers
      << I_NOT(1, 0), I_ADDi(0, 1, 1), I_ADDr(1, 1, 1), I_ADDi(1, 1, 16), I_HALT >>,
      \* three reads of the keyboard status register through a pointer
      << I_LDI(0, 3), I_LDI(1, 2), I_LDI(2, 1), I_HALT, MR_KBSR >>,
      \* a read of the keyboard status register through a base register
      << I_LD(1, 3), I_LDR(0, 1, 0), I_LDR(2, 1, 2), I_HALT, MR_KBSR >>,
      \* reserved opcodes, with different low bits
      << I_RTI(0) >>, << I_RTI(4095) >>, << I_RES(0) >>, << I_RES(TRAP_HALT) >>,
      << I_ADDi(1, 0, 1), I_RES(291) >>,
      \* trap vectors outside 0x20..0x25
      << I_TRAP(0) >>, << I_TRAP(31) >>, << I_TRAP(38) >>, << I_TRAP(255) >>,
      << I_LEA(1, 0), I_TRAP(165) >>,
      \* trap words with bits set between the opcode and the vector
      << I_TRAP(TRAP_HALT) + 256 >>, << I_TRAP(38) + 2048 >>,
      \* character input and output
      << I_TRAP(TRAP_GETC), I_TRAP(TRAP_OUT), I_TRAP(TRAP_IN), I_HALT >>,
      << I_LEA(0, 2), I_TRAP(TRAP_PUTS), I_HALT, 104, 105 >>,
      << I_LEA(0, 2), I_TRAP(TRAP_PUTSP), I_HALT, 26984, 33 >>,
      \* a string with a character above 0x7F
      << I_LEA(0, 2), I_TRAP(TRAP_PUTS), I_HALT, 233 >>,
      << I_NOT(0, 1), I_TRAP(TRAP_PUTS), I_HALT >>,
      << I_NOT(0, 1), I_TRAP(TRAP_PUTSP), I_HALT >>,
      << I_LD(0, 2), I_TRAP(TRAP_PUTS), I_HALT, MR_KBSR >>,
      \* a store to the keyboard status register
      << I_LD(1, 2), I_STR(1, 1, 0), I_HALT, MR_KBSR >>,
      \* stores and loads
      << I_LEA(1, 4), I_ST(1, 3), I_STI(1, 2), I_STR(1, 1, 1), I_LD(2, 0) >>,
      << I_LEA(1, 511), I_STR(1, 1, 63), I_LDR(2, 1, 63), I_HALT >>,
      \* branches
      << I_BR(2, 1), I_HALT, I_ADDi(1, 0, 1), I_BR(4, 1), I_BR(7, 508) >>,
      << I_BR(0, 5), I_ADDi(1, 0, 31), I_BR(5, 1), I_HALT, I_HALT >>,
      \* subroutine calls and returns
      << I_JSR(1), I_HALT, I_JSRR(7), I_JMP(7) >>,
      << I_LEA(2, 2), I_JSRR(2), I_HALT, I_JSR(2046) >> }

AuxImages ==
    { ImageFile(0, << I_HALT >>),
      ImageFile(65535, << I_HALT >>),
      ImageFile(65535, << 65 >>) }

\* images around the end of memory, files shorter than the header, a file that
\* cannot be opened, a file with an odd trailing byte
LoadFiles ==
    { ImageFile(o, [i \in 1..n |-> I_HALT]) : o \in {65534, 65535}, n \in 0..MaxWords }
    \cup { MissingFile,
           [exists |-> TRUE, bytes |-> << >>],
           [exists |-> TRUE, bytes |-> << 48 >>],
           [exists |-> TRUE, bytes |-> << 48, 0, 240, 37, 7 >>] }

\* the double indirection of the specification's example: memory[100] = 200,
\* memory[200] = 0x1234, and an LDI at address 90 whose offset resolves to 100
LdiExample ==
    << ImageFile(90, << I_LDI(0, 9), I_HALT >>),
       ImageFile(100, << 200 >>),
       ImageFile(200, << 4660 >>),
       At(<< I_LD(1, 1), I_JMP(1), 90 >>) >>

\* an LDI just below the keyboard status register: its pointer is read from
\* 0xFE00 and the next instruction is fetched from 0xFE00
KeyboardFetch ==
    << ImageFile(65023, << I_LDI(0, 0) >>),
       At(<< I_LD(1, 1), I_JMP(1), 65023 >>) >>

CommandLines ==
    { << >>, LdiExample, KeyboardFetch }
    \cup { << At(p) >> : p \in EnginePrograms }
    \cup { << a, At(p) >> : a \in AuxImages,
             p \in { << I_NOT(1, 0), I_JMP(1) >>,
                     << I_NOT(0, 1), I_TRAP(TRAP_PUTS), I_HALT >>,
                     << I_NOT(0, 1), I_TRAP(TRAP_PUTSP), I_HALT >> } }
    \cup { << f >> : f \in LoadFiles }
    \cup { << At(<< I_HALT >>), f >> : f \in LoadFiles }

\* the characters that can arrive on standard input
Chars == {97, 98}

(***************************************************************************)
(* The state.                                                              *)
(***************************************************************************)
VARIABLES
    argv,             \* the image paths still to load (main.rs, run)
    overflow_checks,  \* the build: TRUE when `+` panics on overflow (debug)
    mpc,              \* where the main thread is
    cells,            \* Memory::cells
    registers,        \* VM::registers
    running,          \* the loop flag of VM::execute
    instr,            \* the fetched instruction
    result,           \* what VM::execute returned
    outcome,          \* what run() returned to main
    raw,              \* the terminal is in raw input mode
    restores,         \* the calls of restore_input_buffering
    kq,               \* characters pending on file descriptor 0
    ubuf,             \* characters held in the buffer of io::stdin()
    eof,              \* standard input has ended
    arrived,          \* the characters that have arrived so far
    out,              \* the bytes printed to standard output
    spc,              \* the signal thread: "off", "waiting", "pending"
    exitedBy,         \* "none", or who ended the process
    exitCode,         \* the exit status of the process
    steps,            \* the instructions fetched so far
    \* history variables, read by the properties only
    entered,          \* raw mode has been entered
    haltSeen,         \* a TRAP HALT has been executed
    halts,            \* the transitions Running -> Halted
    fetchedAfterHalt, \* an instruction was fetched after a TRAP HALT
    fetchedAfterEnd,  \* an instruction was fetched after execute returned
    lastGpr,          \* the value last written to R0..R7, -1 if none
    lastFlagged,      \* the value last written together with update_flags
    lastDst,          \* the register index last written through a field
    poll,             \* the last read of the keyboard status register
    lastLoad,         \* the last image load: origin + words, the length of
                      \* the file, how it ended, whether memory was kept
    panicSite,        \* where the process panicked
    sigAt,            \* where the main thread was when SIGINT arrived
    reads,            \* the addresses the last step of the engine read
    lastExec,         \* the last instruction executed and how it ended
    \* the pure helpers, applied on their own (PureSpec)
    arg,              \* the helper applied and its argument
    val               \* its value, -1 before it is applied

engine == << mpc, cells, registers, running, instr, result, outcome >>
terminal == << raw, restores, entered >>
stdin == << kq, ubuf, eof, arrived >>
process == << argv, overflow_checks, spc, exitedBy, exitCode, sigAt >>
observed == << haltSeen, halts, fetchedAfterHalt, fetchedAfterEnd, lastGpr,
               lastFlagged, lastDst, poll, lastLoad, panicSite, lastExec, reads >>
history == << observed, arg, val >>
vars == << engine, terminal, stdin, process, out, steps, history >>

NoPoll == [done |-> FALSE, avail |-> FALSE, head |-> 0, val |-> 0, data |-> 0]
NoLoad == [done |-> FALSE, size |-> 0, res |-> NoResult, panic |-> FALSE,
           bytes |-> 0, kept |-> TRUE]
NoExec == [instr |-> 0, res |-> NoResult]
NoArg == [fn |-> "none", x |-> 0, k |-> 0]

Alive == exitedBy = "none"

\* VM::new: zeroed memory and registers; nothing has run yet
Constructed ==
    /\ mpc = "start"
    /\ cells = Memory_new
    /\ registers = [r \in 0..(R_COUNT - 1) |-> 0]
    /\ running = FALSE
    /\ instr = 0
    /\ result = NoResult
    /\ outcome = NoResult
    /\ raw = FALSE /\ restores = 0 /\ entered = FALSE
    /\ kq = << >> /\ ubuf = << >> /\ eof = FALSE /\ arrived = 0
    /\ out = << >>
    /\ spc = "off" /\ exitedBy = "none" /\ exitCode = 0 /\ sigAt = "none"
    /\ steps = 0
    /\ haltSeen = FALSE /\ halts = 0
    /\ fetchedAfterHalt = FALSE /\ fetchedAfterEnd = FALSE
    /\ lastGpr = -1 /\ lastFlagged = -1 /\ lastDst = -1
    /\ poll = NoPoll /\ lastLoad = NoLoad /\ panicSite = "none"
    /\ lastExec = NoExec /\ reads = {}

\* a run of the process: a command line and a build
Init ==
    /\ argv \in CommandLines
    /\ overflow_checks \in BOOLEAN
    /\ Constructed
    /\ arg = NoArg /\ val = -1

(***************************************************************************)
(* Process exit.                                                           *)
(***************************************************************************)
\* process::exit(code): the status the parent sees
ExitStatus(code) == code % 256

\* main: the exit code for what run() returned
MainExitCode(o) ==
    CASE o.kind = "Ok" -> 0
      [] o.kind = "IO" -> 1
      [] o.kind = "InvalidOpCode" -> 1
      [] o.kind = "InvalidProgram" -> 1

\* a panic of the main thread unwinds out of main: exit status 101, no cleanup
Panic(site) ==
    /\ exitedBy' = "panic"
    /\ exitCode' = 101
    /\ panicSite' = site

(***************************************************************************)
(* main.rs, run: arguments, terminal, images, signal thread.               *)
(***************************************************************************)
\* args.len() < 2: usage, exit(2)
Usage ==
    /\ Alive /\ mpc = "start" /\ argv = << >>
    /\ exitedBy' = "main" /\ exitCode' = ExitStatus(2)
    /\ UNCHANGED << engine, terminal, stdin, argv, overflow_checks, spc, sigAt,
                    out, steps, history >>

\* Terminal::new()?
TerminalNew ==
    /\ Alive /\ mpc = "start" /\ argv # << >>
    /\ \E ok \in BOOLEAN :
          IF ok THEN mpc' = "load" /\ outcome' = outcome
                ELSE mpc' = "report" /\ outcome' = Err_IO
    /\ UNCHANGED << cells, registers, running, instr, result, terminal, stdin,
                    process, out, steps, history >>

\* vm.load_program(image_path)? for the next path
LoadProgram ==
    /\ Alive /\ mpc = "load" /\ argv # << >>
    /\ LET r == load_program(cells, Head(argv))
           f == Head(argv)
           size == IF f.exists /\ Len(f.bytes) >= 2
                       THEN from_be_bytes(f.bytes[1], f.bytes[2])
                            + (Len(f.bytes) - 2) \div 2
                       ELSE -1
       IN  /\ lastLoad' = [done |-> TRUE, size |-> size, res |-> r.res,
                           panic |-> r.panic,
                           bytes |-> IF f.exists THEN Len(f.bytes) ELSE -1,
                           kept |-> r.cells = cells]
           /\ cells' = r.cells
           /\ IF r.panic
                 THEN /\ Panic("load_image")
                      /\ UNCHANGED << mpc, outcome, argv >>
                 ELSE /\ UNCHANGED << exitedBy, exitCode, panicSite >>
                      /\ IF r.res = Ok
                            THEN argv' = Tail(argv) /\ UNCHANGED << mpc, outcome >>
                            ELSE mpc' = "report" /\ outcome' = r.res
                                 /\ UNCHANGED argv
    /\ UNCHANGED << registers, running, instr, result, terminal, stdin,
                    overflow_checks, spc, sigAt, out, steps, haltSeen, halts,
                    fetchedAfterHalt, fetchedAfterEnd, lastGpr, lastFlagged,
                    lastDst, poll, lastExec, reads, arg, val >>

\* Signals::new(&[SIGINT])? and the spawn of the signal thread
InstallSignals ==
    /\ Alive /\ mpc = "load" /\ argv = << >>
    /\ \E ok \in BOOLEAN :
          IF ok THEN mpc' = "run" /\ spc' = "waiting" /\ outcome' = outcome
                ELSE mpc' = "report" /\ spc' = spc /\ outcome' = Err_IO
    /\ UNCHANGED << cells, registers, running, instr, result, terminal, stdin,
                    argv, overflow_checks, exitedBy, exitCode, sigAt, out, steps,
                    history >>

\* main: report what run() returned
Report ==
    /\ Alive /\ mpc = "report"
    /\ exitedBy' = "main"
    /\ exitCode' = ExitStatus(MainExitCode(outcome))
    /\ UNCHANGED << engine, terminal, stdin, argv, overflow_checks, spc, sigAt,
                    out, steps, history >>

(***************************************************************************)
(* The signal thread and the environment.                                  *)
(***************************************************************************)
\* a SIGINT is delivered: the iterator of the signal thread wakes up
Sigint ==
    /\ Alive /\ spc = "waiting"
    /\ spc' = "pending"
    /\ sigAt' = IF mpc \in {"fetch", "exec"} /\ running THEN "running" ELSE mpc
    /\ UNCHANGED << engine, terminal, stdin, argv, overflow_checks, exitedBy,
                    exitCode, out, steps, history >>

\* a signal thread that exits with the code of a usage error
SignalExit_usage ==
    /\ Alive /\ spc = "pending"
    /\ exitedBy' = "sigint"
    /\ exitCode' = ExitStatus(2)
    /\ UNCHANGED << engine, terminal, stdin, argv, overflow_checks, spc, sigAt,
                    out, steps, history >>

\* the signal thread: eprintln, process::exit(-2)
SignalExit ==
    /\ Alive /\ spc = "pending"
    /\ exitedBy' = "sigint"
    /\ exitCode' = ExitStatus(-2)
    /\ UNCHANGED << engine, terminal, stdin, argv, overflow_checks, spc, sigAt,
                    out, steps, history >>

\* a character arrives on standard input
Arrive ==
    /\ Alive /\ ~eof /\ arrived < MaxInput
    /\ \E c \in Chars : kq' = Append(kq, c)
    /\ arrived' = arrived + 1
    /\ UNCHANGED << engine, terminal, ubuf, eof, process, out, steps, history >>

\* standard input ends
CloseInput ==
    /\ Alive /\ ~eof
    /\ eof' = TRUE
    /\ UNCHANGED << engine, terminal, kq, ubuf, arrived, process, out, steps,
                    history >>

(***************************************************************************)
(* Standard input and the memory-mapped keyboard (vm/memory.rs).           *)
(* A context is the part of the state a memory read can change:            *)
(* [cells, kq, ubuf, poll], and the addresses read so far.                 *)
(***************************************************************************)
Ctx == [cells |-> cells, kq |-> kq, ubuf |-> ubuf, poll |-> poll, reads |-> {}]

\* Memory::check_key: select() on descriptor 0 with a zero timeout.  The
\* descriptor is readable when characters are pending and when the stream
\* has ended.
check_key(pending, ended) == pending # << >> \/ ended

\* io::stdin() reads through a buffer: an empty buffer is first refilled
\* with everything pending on the descriptor
StdinFill(c) ==
    IF c.ubuf = << >> THEN [c EXCEPT !.ubuf = c.kq, !.kq = << >>] ELSE c

\* a read of one byte would not block
StdinReady(c) == c.ubuf # << >> \/ c.kq # << >> \/ eof

\* one byte from io::stdin(): [ctx, some, byte]; some = FALSE at end of input
StdinByte(c) ==
    LET f == StdinFill(c)
    IN  IF f.ubuf = << >>
            THEN [ctx |-> f, some |-> FALSE, byte |-> 0]
            ELSE [ctx |-> [f EXCEPT !.ubuf = Tail(f.ubuf)], some |-> TRUE,
                  byte |-> Head(f.ubuf)]

\* the refresh of the device registers on a read of MR_KBSR:
\* io::stdin().bytes().next().and_then(|b| b.ok()).unwrap_or(0)
KeyboardPoll(c) ==
    LET avail == c.ubuf \o c.kq
    IN  IF check_key(c.kq, eof)
            THEN LET b == StdinByte(c)
                     data == IF b.some THEN b.byte ELSE 0
                     m == Memory_write(Memory_write(c.cells, MR_KBSR, Shl(1, 15)),
                                       MR_KBDR, data)
                 IN  [b.ctx EXCEPT !.cells = m,
                         !.poll = [done |-> TRUE, avail |-> avail # << >>,
                                   head |-> IF avail # << >> THEN Head(avail) ELSE 0,
                                   val |-> Cell(m, MR_KBSR),
                                   data |-> Cell(m, MR_KBDR)]]
            ELSE LET m == Memory_write(c.cells, MR_KBSR, 0)
                 IN  [c EXCEPT !.cells = m,
                         !.poll = [done |-> TRUE, avail |-> avail # << >>,
                                   head |-> IF avail # << >> THEN Head(avail) ELSE 0,
                                   val |-> Cell(m, MR_KBSR),
                                   data |-> Cell(m, MR_KBDR)]]

\* a read that refreshes the device registers at both device addresses
Memory_read_devices(c, address) ==
    LET c0 == [c EXCEPT !.reads = @ \cup {address}]
        c1 == IF address \in {MR_KBSR, MR_KBDR} THEN KeyboardPoll(c0) ELSE c0
    IN  [ctx |-> c1, val |-> Cell(c1.cells, address)]

\* Memory::read: [ctx, val]
Memory_read(c, address) ==
    LET c0 == [c EXCEPT !.reads = @ \cup {address}]
        c1 == IF address = MR_KBSR THEN KeyboardPoll(c0) ELSE c0
    IN  [ctx |-> c1, val |-> Cell(c1.cells, address)]

(***************************************************************************)
(* Standard output.  print! of a `u8 as char` writes the character's UTF-8 *)
(* encoding.                                                               *)
(***************************************************************************)
Utf8(ch) == IF ch < 128 THEN << ch >> ELSE << 192 + (ch \div 64), 128 + (ch % 64) >>

HaltNotice == << 72, 65, 76, 84, 10 >>
InPrompt == << 69, 110, 116, 101, 114, 32, 97, 32, 99, 104, 97, 114, 97, 99,
               116, 101, 114, 58, 32 >>

\* the loop of TRAP_PUTS from address addr: [ctx, out, panic]
RECURSIVE PutsLoop(_, _, _)
PutsLoop(c, addr, o) ==
    LET r1 == Memory_read(c, addr)
    IN  IF r1.val = 0 THEN [ctx |-> r1.ctx, out |-> o, panic |-> FALSE]
        ELSE LET r2 == Memory_read(r1.ctx, addr)
                 o2 == o \o Utf8(BitAnd(r2.val, 255))
             IN  IF addr + 1 >= U16 /\ overflow_checks
                     THEN [ctx |-> r2.ctx, out |-> o2, panic |-> TRUE]
                     ELSE PutsLoop(r2.ctx, (addr + 1) % U16, o2)

\* the loop of TRAP_PUTSP from address addr: [ctx, out, panic]
RECURSIVE PutspLoop(_, _, _)
PutspLoop(c, addr, o) ==
    LET r1 == Memory_read(c, addr)
    IN  IF r1.val = 0 THEN [ctx |-> r1.ctx, out |-> o, panic |-> FALSE]
        ELSE LET r2 == Memory_read(r1.ctx, addr)
                 char1 == BitAnd(r2.val, 255)
                 char2 == Shr(r2.val, 8) % 256
                 o2 == o \o Utf8(char1)
                         \o (IF char2 # 0 THEN Utf8(char2) ELSE << >>)
             IN  IF addr + 1 >= U16 /\ overflow_checks
                     THEN [ctx |-> r2.ctx, out |-> o2, panic |-> TRUE]
                     ELSE PutspLoop(r2.ctx, (addr + 1) % U16, o2)

(***************************************************************************)
(* VM::run and VM::execute.                                                *)
(***************************************************************************)
\* run: self.terminal.disable_input_buffering()?
EnterRaw ==
    /\ Alive /\ mpc = "run"
    /\ \E ok \in BOOLEAN :
          IF ok THEN /\ raw' = TRUE /\ entered' = TRUE
                     /\ mpc' = "execute" /\ outcome' = outcome
                ELSE /\ UNCHANGED << raw, entered >>
                     /\ mpc' = "report" /\ outcome' = Err_IO
    /\ UNCHANGED << cells, registers, running, instr, result, restores, stdin,
                    process, out, steps, history >>

\* execute: PC := PC_START, COND := FL_ZRO, running := true
ExecuteStart ==
    /\ Alive /\ mpc = "execute"
    /\ registers' = [registers EXCEPT ![R_PC] = PC_START, ![R_COND] = FL_ZRO]
    /\ running' = TRUE
    /\ mpc' = "fetch"
    /\ UNCHANGED << cells, instr, result, outcome, terminal, stdin, process, out,
                    steps, history >>

\* fetch: pc = PC; PC += 1; instr = memory.read(pc)
Fetch ==
    /\ Alive /\ mpc = "fetch" /\ running /\ steps < MaxSteps
    /\ LET pc == registers[R_PC]
       IN  /\ ~(pc + 1 >= U16 /\ overflow_checks)
           /\ LET r == Memory_read(Ctx, pc)
              IN  /\ registers' = [registers EXCEPT ![R_PC] = (pc + 1) % U16]
                  /\ instr' = r.val
                  /\ cells' = r.ctx.cells /\ kq' = r.ctx.kq
                  /\ ubuf' = r.ctx.ubuf /\ poll' = r.ctx.poll
                  /\ reads' = r.ctx.reads
    /\ mpc' = "exec"
    /\ steps' = steps + 1
    /\ fetchedAfterHalt' = (fetchedAfterHalt \/ haltSeen)
    /\ fetchedAfterEnd' = (fetchedAfterEnd \/ result # NoResult)
    /\ UNCHANGED << running, result, outcome, terminal, eof, arrived, process,
                    out, haltSeen, halts, lastGpr, lastFlagged, lastDst,
                    lastLoad, panicSite, lastExec, arg, val >>

\* fetch with PC = 0xFFFF in a build with overflow checks: `PC += 1` panics
FetchOverflow ==
    /\ Alive /\ mpc = "fetch" /\ running /\ steps < MaxSteps
    /\ registers[R_PC] + 1 >= U16 /\ overflow_checks
    /\ Panic("fetch")
    /\ UNCHANGED << engine, terminal, stdin, argv, overflow_checks, spc, sigAt,
                    out, steps, haltSeen, halts, fetchedAfterHalt,
                    fetchedAfterEnd, lastGpr, lastFlagged, lastDst, poll,
                    lastLoad, lastExec, reads, arg, val >>

\* the loop ends: execute returns Ok(())
LoopExit ==
    /\ Alive /\ mpc = "fetch" /\ ~running
    /\ result' = Ok
    /\ mpc' = "restore"
    /\ UNCHANGED << cells, registers, running, instr, outcome, terminal, stdin,
                    process, out, steps, history >>

\* run: self.terminal.restore_input_buffering()?; result
Restore ==
    /\ Alive /\ mpc = "restore"
    /\ restores' = restores + 1
    /\ \E ok \in BOOLEAN :
          IF ok THEN raw' = FALSE /\ outcome' = result
                ELSE raw' = raw /\ outcome' = Err_IO
    /\ mpc' = "report"
    /\ UNCHANGED << cells, registers, running, instr, result, entered, stdin,
                    process, out, steps, history >>

(***************************************************************************)
(* The handlers of VM::execute_instruction, as functions of the register   *)
(* file (and, for the memory instructions, of the context).                *)
(***************************************************************************)
PCoffset9(regs, ins) == wrapping_add(regs[R_PC], sign_extend(BitAnd(ins, 511), 9))

\* an addition that saturates at 0xFFFF
add_op_saturating(regs, ins) ==
    LET r0 == RegField(ins, 9)
        r1 == RegField(ins, 6)
        imm_flag == BitAnd(Shr(ins, 5), 1)
        b == IF imm_flag # 0 THEN sign_extend(BitAnd(ins, 31), 5)
                             ELSE regs[BitAnd(ins, 7)]
        v == IF regs[r1] + b >= U16 THEN U16 - 1 ELSE regs[r1] + b
    IN  update_flags([regs EXCEPT ![r0] = v], r0)

add_op(regs, ins) ==
    LET r0 == RegField(ins, 9)
        r1 == RegField(ins, 6)
        imm_flag == BitAnd(Shr(ins, 5), 1)
        v == IF imm_flag # 0
                THEN wrapping_add(regs[r1], sign_extend(BitAnd(ins, 31), 5))
                ELSE wrapping_add(regs[r1], regs[BitAnd(ins, 7)])
    IN  update_flags([regs EXCEPT ![r0] = v], r0)

and_op(regs, ins) ==
    LET r0 == RegField(ins, 9)
        r1 == RegField(ins, 6)
        imm_flag == BitAnd(Shr(ins, 5), 1)
        v == IF imm_flag # 0
                THEN BitAnd(regs[r1], sign_extend(BitAnd(ins, 31), 5))
                ELSE BitAnd(regs[r1], regs[BitAnd(ins, 7)])
    IN  update_flags([regs EXCEPT ![r0] = v], r0)

not_op(regs, ins) ==
    LET r0 == RegField(ins, 9)
        r1 == RegField(ins, 6)
    IN  update_flags([regs EXCEPT ![r0] = BitNot(regs[r1])], r0)

\* a branch that ignores the condition mask
branch_op_always(regs, ins) ==
    [regs EXCEPT ![R_PC] = wrapping_add(regs[R_PC], sign_extend(BitAnd(ins, 511), 9))]

branch_op(regs, ins) ==
    LET pc_offset == sign_extend(BitAnd(ins, 511), 9)
        cond_flag == BitAnd(Shr(ins, 9), 7)
    IN  IF BitAnd(cond_flag, regs[R_COND]) # 0
            THEN [regs EXCEPT ![R_PC] = wrapping_add(regs[R_PC], pc_offset)]
            ELSE regs

jump_op(regs, ins) ==
    [regs EXCEPT ![R_PC] = regs[RegField(ins, 6)]]

jsr_op(regs, ins) ==
    LET long_flag == BitAnd(Shr(ins, 11), 1)
        linked == [regs EXCEPT ![R_R7] = regs[R_PC]]
    IN  IF long_flag # 0
            THEN [linked EXCEPT ![R_PC] =
                     wrapping_add(linked[R_PC], sign_extend(BitAnd(ins, 2047), 11))]
            ELSE [linked EXCEPT ![R_PC] = linked[RegField(ins, 6)]]

load_effective_address_op(regs, ins) ==
    LET r0 == RegField(ins, 9)
    IN  update_flags([regs EXCEPT ![r0] = PCoffset9(regs, ins)], r0)

\* the loads: [regs, ctx]
load_op(regs, c, ins) ==
    LET r0 == RegField(ins, 9)
        r == Memory_read(c, PCoffset9(regs, ins))
    IN  [regs |-> update_flags([regs EXCEPT ![r0] = r.val], r0), ctx |-> r.ctx]

\* an LDI that stops after the first read
load_indirect_op_direct(regs, c, ins) ==
    LET r0 == RegField(ins, 9)
        p == Memory_read(c, PCoffset9(regs, ins))
    IN  [regs |-> update_flags([regs EXCEPT ![r0] = p.val], r0), ctx |-> p.ctx]

load_indirect_op(regs, c, ins) ==
    LET r0 == RegField(ins, 9)
        p == Memory_read(c, PCoffset9(regs, ins))
        r == Memory_read(p.ctx, p.val)
    IN  [regs |-> update_flags([regs EXCEPT ![r0] = r.val], r0), ctx |-> r.ctx]

load_register_op(regs, c, ins) ==
    LET r0 == RegField(ins, 9)
        r1 == RegField(ins, 6)
        addr == wrapping_add(regs[r1], sign_extend(BitAnd(ins, 63), 6))
        r == Memory_read(c, addr)
    IN  [regs |-> update_flags([regs EXCEPT ![r0] = r.val], r0), ctx |-> r.ctx]

\* the stores: the context after the store
store_op(regs, c, ins) ==
    [c EXCEPT !.cells =
        Memory_write(c.cells, PCoffset9(regs, ins), regs[RegField(ins, 9)])]

store_indirect_op(regs, c, ins) ==
    LET p == Memory_read(c, PCoffset9(regs, ins))
    IN  [p.ctx EXCEPT !.cells =
            Memory_write(p.ctx.cells, p.val, regs[RegField(ins, 9)])]

store_register_op(regs, c, ins) ==
    LET addr == wrapping_add(regs[RegField(ins, 6)],
                             sign_extend(BitAnd(ins, 63), 6))
    IN  [c EXCEPT !.cells = Memory_write(c.cells, addr, regs[RegField(ins, 9)])]

\* trap_op: R7 := PC, before the dispatch on the vector
trap_link(regs) == [regs EXCEPT ![R_R7] = regs[R_PC]]

\* a vector read twelve bits wide
TrapVector_wide(ins) == BitAnd(ins, 4095)

\* the vector of a TRAP instruction
TrapVector(ins) == BitAnd(ins, 255)

\* execute, decode: the opcode of the fetched instruction
Decode(ins) == OpCode_from_u16(Shr(ins, 12))

\* a loop that never clears `running`
HaltRequested_never(ins) == FALSE

\* execute: a TRAP with the HALT vector clears `running` before it is executed
HaltRequested(ins) == Decode(ins) = "TRAP" /\ BitAnd(ins, 255) = TRAP_HALT

(***************************************************************************)
(* One step of the loop body: what every handler leaves behind.            *)
(***************************************************************************)
\* the registers, the context and the output after the handler; gpr, flagged
\* and dst are the history of the register writes (-1: none)
Effects(regs2, c2, out2, gpr, flagged, dst) ==
    /\ registers' = regs2
    /\ cells' = c2.cells /\ kq' = c2.kq /\ ubuf' = c2.ubuf /\ poll' = c2.poll
    /\ reads' = c2.reads
    /\ out' = out2
    /\ running' = (running /\ ~HaltRequested(instr))
    /\ haltSeen' = (haltSeen \/ (Shr(instr, 12) = 15 /\ instr % 256 = TRAP_HALT))
    /\ halts' = IF running /\ HaltRequested(instr) THEN halts + 1 ELSE halts
    /\ lastGpr' = IF gpr = -1 THEN lastGpr ELSE gpr
    /\ lastFlagged' = IF flagged = -1 THEN lastFlagged ELSE flagged
    /\ lastDst' = IF dst = -1 THEN lastDst ELSE dst
    /\ UNCHANGED << instr, outcome, terminal, eof, arrived, argv,
                    overflow_checks, spc, sigAt, steps, fetchedAfterHalt,
                    fetchedAfterEnd, lastLoad, arg, val >>

\* the handler returned res: Ok(()) goes round the loop, an error leaves execute
Return(res) ==
    /\ IF res = Ok THEN mpc' = "fetch" /\ result' = result
                   ELSE mpc' = "restore" /\ result' = res
    /\ lastExec' = [instr |-> instr, res |-> res]
    /\ UNCHANGED << exitedBy, exitCode, panicSite >>

\* the handler panicked
PanicIn(site) ==
    /\ Panic(site)
    /\ lastExec' = [instr |-> instr, res |-> NoResult]
    /\ UNCHANGED << mpc, result >>

Exec(op) == Alive /\ mpc = "exec" /\ Decode(instr) = op

\* a handler that only changes registers, writing register dst with flags
RegisterOp(regs2, dst, flags) ==
    /\ Effects(regs2, Ctx, out, IF dst = -1 THEN -1 ELSE regs2[dst],
               IF flags THEN regs2[dst] ELSE -1, dst)
    /\ Return(Ok)

OpADD == Exec("ADD") /\ RegisterOp(add_op(registers, instr), RegField(instr, 9), TRUE)

OpAND == Exec("AND") /\ RegisterOp(and_op(registers, instr), RegField(instr, 9), TRUE)

OpNOT == Exec("NOT") /\ RegisterOp(not_op(registers, instr), RegField(instr, 9), TRUE)

OpLEA ==
    /\ Exec("LEA")
    /\ RegisterOp(load_effective_address_op(registers, instr), RegField(instr, 9), TRUE)

OpBR == Exec("BR") /\ RegisterOp(branch_op(registers, instr), -1, FALSE)

OpJMP == Exec("JMP") /\ RegisterOp(jump_op(registers, instr), -1, FALSE)

OpJSR ==
    /\ Exec("JSR")
    /\ Effects(jsr_op(registers, instr), Ctx, out, registers[R_PC], -1, -1)
    /\ Return(Ok)

\* a load: writes register dst from memory, with flags
LoadOp(r) ==
    LET dst == RegField(instr, 9)
    IN  /\ Effects(r.regs, r.ctx, out, r.regs[dst], r.regs[dst], dst)
        /\ Return(Ok)

OpLD == Exec("LD") /\ LoadOp(load_op(registers, Ctx, instr))

OpLDI == Exec("LDI") /\ LoadOp(load_indirect_op(registers, Ctx, instr))

OpLDR == Exec("LDR") /\ LoadOp(load_register_op(registers, Ctx, instr))

\* a store: changes memory only
StoreOp(c2) == Effects(registers, c2, out, -1, -1, -1) /\ Return(Ok)

OpST == Exec("ST") /\ StoreOp(store_op(registers, Ctx, instr))

OpSTI == Exec("STI") /\ StoreOp(store_indirect_op(registers, Ctx, instr))

OpSTR == Exec("STR") /\ StoreOp(store_register_op(registers, Ctx, instr))

\* OpCode::RES | OpCode::RTI => Err(VMError::InvalidOpCode(op as u16))
OpReserved ==
    /\ \E op \in {"RTI", "RES"} :
          /\ Exec(op)
          /\ Effects(registers, Ctx, out, -1, -1, -1)
          /\ Return(Err_InvalidOpCode(OpCode_as_u16(op)))

(***************************************************************************)
(* VM::trap_op.  Every routine starts from trap_link(registers).           *)
(***************************************************************************)
Trap(vect) == Exec("TRAP") /\ TrapVector(instr) = vect

\* io::stdout().flush()? succeeds or fails
FlushOutcomes == {Ok, Err_IO}

\* TRAP_GETC: read_exact of one byte (waits for it), R0 := byte, flags
TrapGETC ==
    /\ Trap(TRAP_GETC)
    /\ StdinReady(Ctx)
    /\ LET linked == trap_link(registers)
           b == StdinByte(Ctx)
       IN  IF b.some
               THEN LET regs2 == update_flags([linked EXCEPT ![R_R0] = b.byte], R_R0)
                    IN  /\ Effects(regs2, b.ctx, out, b.byte, b.byte, -1)
                        /\ Return(Ok)
               ELSE /\ Effects(linked, b.ctx, out, registers[R_PC], -1, -1)
                    /\ Return(Err_IO)

\* TRAP_OUT: print the low byte of R0, flush
TrapOUT ==
    /\ Trap(TRAP_OUT)
    /\ LET linked == trap_link(registers)
       IN  /\ Effects(linked, Ctx, out \o Utf8(BitAnd(linked[R_R0], 255)),
                      registers[R_PC], -1, -1)
           /\ \E f \in FlushOutcomes : Return(f)

\* TRAP_PUTS: print the words from R0 up to a zero word, flush
TrapPUTS ==
    /\ Trap(TRAP_PUTS)
    /\ LET linked == trap_link(registers)
           p == PutsLoop(Ctx, linked[R_R0], out)
       IN  /\ Effects(linked, p.ctx, p.out, registers[R_PC], -1, -1)
           /\ IF p.panic THEN PanicIn("puts")
                         ELSE \E f \in FlushOutcomes : Return(f)

\* TRAP_PUTSP: print the packed bytes from R0 up to a zero word, flush
TrapPUTSP ==
    /\ Trap(TRAP_PUTSP)
    /\ LET linked == trap_link(registers)
           p == PutspLoop(Ctx, linked[R_R0], out)
       IN  /\ Effects(linked, p.ctx, p.out, registers[R_PC], -1, -1)
           /\ IF p.panic THEN PanicIn("putsp")
                         ELSE \E f \in FlushOutcomes : Return(f)

\* TRAP_IN, first half: the prompt and its flush; then the read waits
TrapIN ==
    /\ Trap(TRAP_IN)
    /\ Effects(trap_link(registers), Ctx, out \o InPrompt, registers[R_PC], -1, -1)
    /\ \E f \in FlushOutcomes :
          IF f = Ok
              THEN /\ mpc' = "in_read"
                   /\ UNCHANGED << result, lastExec, exitedBy, exitCode, panicSite >>
              ELSE Return(f)

\* TRAP_IN, second half: read_exact of one byte, echo, flush, R0 := byte, flags
TrapINRead ==
    /\ Alive /\ mpc = "in_read"
    /\ StdinReady(Ctx)
    /\ LET b == StdinByte(Ctx)
       IN  IF b.some
               THEN \E f \in FlushOutcomes :
                       IF f = Ok
                           THEN /\ Effects(update_flags(
                                             [registers EXCEPT ![R_R0] = b.byte], R_R0),
                                           b.ctx, out \o Utf8(b.byte),
                                           b.byte, b.byte, -1)
                                /\ Return(Ok)
                           ELSE /\ Effects(registers, b.ctx, out \o Utf8(b.byte),
                                           -1, -1, -1)
                                /\ Return(f)
               ELSE /\ Effects(registers, b.ctx, out, -1, -1, -1)
                    /\ Return(Err_IO)

\* TRAP_HALT: println!("HALT"), flush, return Ok(())
TrapHALT ==
    /\ Trap(TRAP_HALT)
    /\ Effects(trap_link(registers), Ctx, out \o HaltNotice, registers[R_PC], -1, -1)
    /\ \E f \in FlushOutcomes : Return(f)

\* unknown => Err(VMError::InvalidOpCode(unknown))
TrapUnknown ==
    /\ Exec("TRAP")
    /\ TrapVector(instr) \notin {TRAP_GETC, TRAP_OUT, TRAP_PUTS, TRAP_IN,
                                 TRAP_PUTSP, TRAP_HALT}
    /\ Effects(trap_link(registers), Ctx, out, registers[R_PC], -1, -1)
    /\ Return(Err_InvalidOpCode(TrapVector(instr)))

(***************************************************************************)
(* The specification.  Decode is total on 0..15, so the None arm of        *)
(* execute has no step.                                                    *)
(***************************************************************************)
Next ==
    \/ Usage \/ TerminalNew \/ LoadProgram \/ InstallSignals
    \/ EnterRaw \/ ExecuteStart \/ Fetch \/ FetchOverflow \/ LoopExit
    \/ OpADD \/ OpAND \/ OpNOT \/ OpLEA \/ OpBR \/ OpJMP \/ OpJSR
    \/ OpLD \/ OpLDI \/ OpLDR \/ OpST \/ OpSTI \/ OpSTR \/ OpReserved
    \/ TrapGETC \/ TrapOUT \/ TrapPUTS \/ TrapPUTSP \/ TrapIN \/ TrapINRead
    \/ TrapHALT \/ TrapUnknown
    \/ Restore \/ Report
    \/ Sigint \/ SignalExit \/ Arrive \/ CloseInput

Spec == Init /\ [][Next]_vars

(***************************************************************************)
(* The pure helpers on their own: sign_extend on every field value of the  *)
(* four widths the handlers pass it, update_flags on every 16-bit value of *)
(* a register.                                                             *)
(***************************************************************************)
\* the bit_count arguments of the calls of sign_extend
FieldWidths == {5, 6, 9, 11}

\* the registers update_flags is tried on
FlagRegisters == {R_R0, R_R7}

\* every k-bit field value of each width, every 16-bit register value
PureInit ==
    /\ argv = << >> /\ overflow_checks = FALSE
    /\ Constructed
    /\ \/ \E k \in FieldWidths : \E x \in 0..(Pow2(k) - 1) :
             arg = [fn |-> "sign_extend", x |-> x, k |-> k]
       \/ \E r \in FlagRegisters : \E v \in 0..(U16 - 1) :
             arg = [fn |-> "update_flags", x |-> v, k |-> r]
    /\ val = -1

\* sign_extend(x, bit_count)
ApplySignExtend ==
    /\ arg.fn = "sign_extend" /\ val = -1
    /\ val' = sign_extend(arg.x, arg.k)
    /\ UNCHANGED << engine, terminal, stdin, process, out, steps, observed, arg >>

\* registers[r] = v; update_flags(r): the flag register afterwards
ApplyUpdateFlags ==
    /\ arg.fn = "update_flags" /\ val = -1
    /\ val' = update_flags([registers EXCEPT ![arg.k] = arg.x], arg.k)[R_COND]
    /\ UNCHANGED << engine, terminal, stdin, process, out, steps, observed, arg >>

PureNext == ApplySignExtend \/ ApplyUpdateFlags

PureSpec == PureInit /\ [][PureNext]_vars

(***************************************************************************)
(* Properties.                                                             *)
(***************************************************************************)
\* the flag the specification derives from a written value
FlagOf(v) == IF v = 0 THEN FL_ZRO ELSE IF v >= 32768 THEN FL_NEG ELSE FL_POS

Flags == {FL_POS, FL_ZRO, FL_NEG}

\* execute has started: the registers are initialised
Started == entered /\ mpc # "execute"

\* the restore of the terminal failed (the terminal is still raw afterwards)
RestoreFailed == mpc = "report" /\ entered /\ raw

\* the machine is between two instructions, or past the last one
AfterInstruction == steps >= 1 /\ mpc \in {"fetch", "restore", "report"}

(* C1, as claimed: once a TRAP HALT has been executed the engine has moved
   from Running to Halted exactly once and stays there, nothing is fetched
   afterwards, and run returns success. *)
C1_HaltReturnsSuccess ==
    haltSeen =>
        /\ halts = 1 /\ ~running /\ ~fetchedAfterHalt
        /\ HaltRequested(lastExec.instr)
        /\ mpc \in {"fetch", "restore", "report"}
        /\ (mpc = "restore" => result = Ok)
        /\ (mpc = "report" => outcome = Ok)

(* C1, amended: as C1, but run returns success only when the flush of the
   halt notice and the restore of the terminal succeed; when one of them
   fails, execute still leaves the loop and run returns the I/O failure. *)
C1_HaltEndsRun ==
    haltSeen =>
        /\ halts = 1 /\ ~running /\ ~fetchedAfterHalt
        /\ HaltRequested(lastExec.instr)
        /\ mpc \in {"fetch", "restore", "report"}
        /\ lastExec.res \in {Ok, Err_IO}
        /\ (mpc = "fetch" => lastExec.res = Ok)
        /\ (mpc = "restore" => result = lastExec.res)
        /\ (mpc = "report" =>
              outcome = IF lastExec.res = Ok /\ ~RestoreFailed THEN Ok ELSE Err_IO)

\* the image of the single word 0xF025 at 0x3000 has run and returned success
C1_Witness ==
    /\ haltSeen /\ mpc = "report" /\ outcome = Ok
    /\ cells = (PC_START :> 61477)
    /\ out = HaltNotice /\ steps = 1

(* C2, as claimed: a fetch with PC = 0xFFFF raises no fault and leaves
   PC = 0x0000, and the engine goes on to execute. *)
C2_FetchWraps ==
    [][(/\ Alive /\ mpc = "fetch" /\ running /\ registers[R_PC] = 65535
        /\ (mpc' # mpc \/ exitedBy' = "panic"))
       => (mpc' = "exec" /\ registers'[R_PC] = 0 /\ exitedBy' = "none")]_vars

(* C3, as claimed: after every executed instruction the condition flag is
   the flag of the value most recently written to R0..R7 by any instruction. *)
C3_FlagsFollowLastWrite ==
    (AfterInstruction /\ lastGpr # -1) => registers[R_COND] = FlagOf(lastGpr)

(* C3, amended: after every executed instruction the condition flag is the
   flag of the value most recently written by a flag-updating instruction
   (ADD, AND, NOT, LD, LDI, LDR, LEA, TRAP GETC, TRAP IN), and ZERO when none
   has executed; the R7 writes of JSR, JSRR and TRAP leave it unchanged. *)
C3_FlagsFollowLastFlaggedWrite ==
    AfterInstruction =>
        registers[R_COND] = IF lastFlagged = -1 THEN FL_ZRO ELSE FlagOf(lastFlagged)

\* a flag-updating write was followed by a link write of another sign
C3_Witness ==
    /\ AfterInstruction /\ lastFlagged # -1 /\ lastGpr # lastFlagged
    /\ FlagOf(lastGpr) # FlagOf(lastFlagged)
    /\ registers[R_COND] = FL_NEG

(* C4, as claimed: in every reachable state, from the creation of the
   machine on, the condition-flag register holds exactly one of POSITIVE,
   ZERO, NEGATIVE, and no register field addresses PC or COND. *)
C4_FlagAlwaysOneOfThree ==
    /\ registers[R_COND] \in Flags
    /\ lastDst \in -1..7

(* C4, amended: from the start of execute on, the condition-flag register
   holds exactly one of POSITIVE, ZERO, NEGATIVE; before that (creation,
   image loading, entering raw mode) it holds 0; no register field addresses
   PC or COND as a destination. *)
C4_FlagOneOfThreeOnceStarted ==
    /\ (Started => registers[R_COND] \in Flags)
    /\ (~Started => registers[R_COND] = 0)
    /\ lastDst \in -1..7

\* all three flags occur: here NEGATIVE after a write to R1
C4_Witness ==
    /\ Started /\ registers[R_COND] = FL_NEG /\ lastDst = 1
    /\ registers[1] = 65535

(* C5, as claimed: a read of the keyboard status register returns bit 15
   set if and only if a character has arrived and is not yet consumed; then
   the data register holds that character; otherwise the status is 0. *)
C5_StatusReadContract ==
    poll.done =>
        /\ (poll.val >= 32768) = poll.avail
        /\ (poll.avail => poll.data = poll.head)
        /\ (~poll.avail => poll.val = 0)

(* C6, as claimed: once raw mode has been entered, every end of the process
   other than the interrupt has invoked restore exactly once, after the last
   instruction and before the report; without raw mode nothing is executed. *)
C6_RestoreOnEveryExit ==
    /\ (entered /\ (mpc = "report" \/ exitedBy \in {"main", "panic"})
           => restores = 1)
    /\ restores <= 1
    /\ ~fetchedAfterEnd
    /\ (~entered => steps = 0)

\* the exit codes of success, usage error and the error kinds
MainExitCodes ==
    {0, 2} \cup {MainExitCode(o) : o \in {Err_IO, Err_InvalidOpCode(0), Err_InvalidProgram}}

(* C7, as claimed: a SIGINT delivered while the engine is Running ends the
   process with an exit code of its own, restore never having been invoked. *)
C7_InterruptEndsProcess ==
    (sigAt = "running" /\ ~Alive) =>
        /\ exitedBy = "sigint"
        /\ exitCode \notin MainExitCodes
        /\ restores = 0

(* C7, amended: a SIGINT delivered while the engine is Running wakes the
   signal thread, which ends the process whenever it runs, without waiting
   for the instruction or the loop, with exit code 254 (different from 0, 1
   and 2) and without invoking restore: when it ends the process inside the
   loop the terminal is left raw.  The engine keeps stepping until then, so
   the run may end, restore and report first. *)
C7_SignalThreadEndsProcess ==
    /\ (spc = "pending" /\ Alive => ENABLED SignalExit)
    /\ (exitedBy = "sigint" =>
           /\ spc = "pending"
           /\ exitCode = 254 /\ exitCode \notin MainExitCodes
           /\ (mpc \in {"execute", "fetch", "exec", "in_read", "restore"}
                  => raw /\ restores = 0))

\* the signal thread ended the process between a fetch and its execution
C7_Witness ==
    /\ sigAt = "running" /\ exitedBy = "sigint" /\ mpc = "exec"
    /\ raw /\ restores = 0 /\ exitCode = 254

\* the opcode bits of the last executed instruction
LastOp == Shr(lastExec.instr, 12)

(* C8, as claimed: a fetched word with opcode 8 or 13 ends the run with the
   invalid-opcode error carrying 8 or 13, whatever its low 12 bits, and
   nothing is fetched afterwards. *)
C8_ReservedEndsRun ==
    (lastExec.res # NoResult /\ LastOp \in {8, 13}) =>
        /\ mpc \in {"restore", "report"} /\ ~fetchedAfterEnd
        /\ result = Err_InvalidOpCode(LastOp)
        /\ (mpc = "report" => outcome = Err_InvalidOpCode(LastOp))

(* C8, amended: as C8 for execute; run returns that error unless the restore
   of the terminal fails, in which case run returns the I/O failure. *)
C8_ReservedEndsExecute ==
    (lastExec.res # NoResult /\ LastOp \in {8, 13}) =>
        /\ mpc \in {"restore", "report"} /\ ~fetchedAfterEnd
        /\ result = Err_InvalidOpCode(LastOp)
        /\ (mpc = "report" =>
              outcome = IF RestoreFailed THEN Err_IO ELSE Err_InvalidOpCode(LastOp))

\* RES with the low bits of a HALT trap was reported as invalid opcode 13
C8_Witness ==
    /\ lastExec.instr = 13 * 4096 + 37 /\ mpc = "report"
    /\ outcome = [kind |-> "InvalidOpCode", code |-> 13]
    /\ ~haltSeen

\* the last executed instruction was a TRAP with a vector outside 0x20..0x25
BadTrap ==
    /\ lastExec.res # NoResult /\ LastOp = 15
    /\ lastExec.instr % 256 \notin 32..37

\* the last executed instruction faulted
Faulted == lastExec.res \notin {NoResult, Ok}

(* C9, as claimed: a TRAP with a vector outside 0x20..0x25 faults with the
   invalid-opcode error carrying the low byte; a faulting instruction aborts
   the run: nothing is fetched after it and run returns the fault. *)
C9_FaultEndsRun ==
    /\ (BadTrap => lastExec.res = Err_InvalidOpCode(lastExec.instr % 256))
    /\ (Faulted =>
           /\ mpc \in {"restore", "report"} /\ ~fetchedAfterEnd
           /\ result = lastExec.res
           /\ (mpc = "report" => outcome = lastExec.res))

(* C9, amended: as C9 for execute; run returns the fault unless the restore
   of the terminal fails, in which case run returns the I/O failure. *)
C9_FaultEndsExecute ==
    /\ (BadTrap => lastExec.res = Err_InvalidOpCode(lastExec.instr % 256))
    /\ (Faulted =>
           /\ mpc \in {"restore", "report"} /\ ~fetchedAfterEnd
           /\ result = lastExec.res
           /\ (mpc = "report" =>
                 outcome = IF RestoreFailed THEN Err_IO ELSE lastExec.res))

\* a TRAP with vector 0x26 and bit 11 set was reported as invalid opcode 0x26
C9_Witness ==
    /\ lastExec.instr = 15 * 4096 + 2048 + 38 /\ mpc = "report"
    /\ outcome = [kind |-> "InvalidOpCode", code |-> 38]
    /\ steps = 1

(* C10, as claimed: a load of an image with origin + words > 65536 returns
   an error and does not crash; a load of an image that fits returns Ok. *)
C10_LoadChecksRange ==
    lastLoad.done =>
        /\ (lastLoad.size > MEMORY_MAX =>
               ~lastLoad.panic /\ lastLoad.res \notin {Ok, NoResult})
        /\ (lastLoad.size \in 0..MEMORY_MAX => lastLoad.res = Ok)

(* C11, as claimed: the load of an image file of 0 or 1 bytes fails with the
   invalid-program-format error, which is neither the I/O failure nor the
   invalid-opcode error, and leaves memory unchanged. *)
C11_ShortImageInvalidProgram ==
    (lastLoad.done /\ lastLoad.bytes \in {0, 1}) =>
        /\ ~lastLoad.panic
        /\ lastLoad.res = Err_InvalidProgram
        /\ lastLoad.res.kind \notin {"IO", "InvalidOpCode"}
        /\ lastLoad.kept

\* one error of each of the three kinds
ErrorKinds == {Err_IO, Err_InvalidOpCode(0), Err_InvalidProgram}

(* C12, as claimed: when main reports what run returned, the exit code is 0
   exactly on success, and the exit code of a failure is not the exit code
   main gives to a failure of another kind. *)
C12_ExitCodesDistinct ==
    (exitedBy = "main" /\ mpc = "report") =>
        /\ (outcome = Ok <=> exitCode = 0)
        /\ \A e \in ErrorKinds :
              e.kind # outcome.kind => exitCode # ExitStatus(MainExitCode(e))

\* the step that executes a fetched instruction with opcode op
ExecStep(op) ==
    /\ Alive /\ mpc = "exec" /\ Shr(instr, 12) = op
    /\ (mpc' # mpc \/ exitedBy' = "panic")

\* the 16-bit two's complement reading of a k-bit field, by arithmetic
Sext(x, k) == IF x >= Pow2(k - 1) THEN x + U16 - Pow2(k) ELSE x

(* C13: executing ADD with R[src1] = a and second operand b (the sign-
   extended 5-bit immediate when bit 5 is set, else R[src2]) raises no fault
   and sets R[dst] = (a + b) mod 65536 and the condition flag from that
   result; no other register and no memory cell changes.  ADD R0,R1,#1 with
   R1 = 0xFFFF gives R0 = 0 and flag ZERO. *)
C13_AddWraps ==
    [][ExecStep(1) =>
         LET dst == (instr \div 512) % 8
             a == registers[(instr \div 64) % 8]
             b == IF (instr \div 32) % 2 = 1 THEN Sext(instr % 32, 5)
                                             ELSE registers[instr % 8]
             sum == (a + b) % 65536
         IN  /\ exitedBy' = "none" /\ mpc' = "fetch" /\ result' = result
             /\ registers' = [registers EXCEPT ![dst] = sum, ![R_COND] = FlagOf(sum)]
             /\ cells' = cells
             /\ (instr = 4193 /\ a = 65535 =>
                    registers'[0] = 0 /\ registers'[R_COND] = FL_ZRO)]_vars

\* ADD R0,R1,#1 has been executed with R1 = 0xFFFF
C13_Witness ==
    /\ lastExec.instr = 4193 /\ lastExec.res = Ok /\ mpc = "fetch"
    /\ registers[1] = 65535 /\ registers[0] = 0 /\ registers[R_COND] = FL_ZRO

\* the address PC + sext9(offset) of a PC-relative instruction, by arithmetic
PcRelative == (registers[R_PC] + Sext(instr % 512, 9)) % 65536

(* C14, as claimed: executing LDI sets R[dst] to memory[memory[PC + sext9
   (offset)]], memory being the cells as they are when the instruction
   starts, and sets the condition flag from the loaded value. *)
C14_LdiReadsStoredCells ==
    [][ExecStep(10) =>
         LET dst == (instr \div 512) % 8
             v == Cell(cells, Cell(cells, PcRelative))
         IN  /\ exitedBy' = "none" /\ mpc' = "fetch"
             /\ registers' = [registers EXCEPT ![dst] = v, ![R_COND] = FlagOf(v)]]_vars

(* C14, amended: LDI reads the pointer at PC + sext9(offset) and then the
   cell the pointer names, in that order, through the memory read operation:
   a read of an address other than 0xFE00 returns the stored cell, a read of
   0xFE00 first refreshes the keyboard cells and returns the refreshed status
   (0x8000 when descriptor 0 is readable, else 0).  R[dst] is the value of the
   second read and the condition flag is derived from it. *)
C14_LdiReadsThroughMemory ==
    [][ExecStep(10) =>
         LET dst == (instr \div 512) % 8
             p == PcRelative
             status == Cell(cells', MR_KBSR)
             polled == p = MR_KBSR \/ Cell(cells, p) = MR_KBSR
             v == IF p = MR_KBSR THEN Cell(cells, status)
                  ELSE IF Cell(cells, p) = MR_KBSR THEN status
                  ELSE Cell(cells, Cell(cells, p))
         IN  /\ exitedBy' = "none" /\ mpc' = "fetch"
             /\ registers' = [registers EXCEPT ![dst] = v, ![R_COND] = FlagOf(v)]
             /\ (polled => status = IF kq # << >> \/ eof THEN 32768 ELSE 0)
             /\ (~polled => cells' = cells)]_vars

\* the specification's example has run: R0 = 0x1234, flag POSITIVE
C14_Witness ==
    /\ lastExec.instr = 40969 /\ lastExec.res = Ok /\ registers[R_PC] = 91
    /\ Cell(cells, 100) = 200 /\ Cell(cells, 200) = 4660
    /\ registers[0] = 4660 /\ registers[R_COND] = FL_POS

\* a step of the engine: a fetch, or the execution of the fetched instruction
EngineStep ==
    /\ Alive /\ mpc \in {"fetch", "exec", "in_read"}
    /\ (mpc' # mpc \/ exitedBy' = "panic")

\* the status a refresh of the keyboard cells stores
Readable == IF kq # << >> \/ eof THEN 32768 ELSE 0

\* the cell a store instruction targets, by arithmetic (-1: not a store)
StoreTarget ==
    LET op == instr \div 4096
    IN  CASE op = 3 -> PcRelative
          [] op = 7 -> (registers[(instr \div 64) % 8] + Sext(instr % 64, 6)) % 65536
          [] op = 11 -> IF PcRelative = MR_KBSR THEN Readable
                                               ELSE Cell(cells, PcRelative)
          [] OTHER -> -1

(* C15: one step of the engine changes a memory cell only (a) at the one
   target cell of ST, STI or STR, which then holds the source register's
   value, or (b) at 0xFE00 and 0xFE02, and then only when the step read
   address 0xFE00 (instruction fetch included), which stores the refreshed
   status.  A step that reads no 0xFE00 and is not a character input leaves
   the input stream and the keyboard untouched; a load changes only its
   destination and the flags; a store, also to a device address, changes no
   register, no output and nothing but its target cell. *)
C15_MemoryFrame ==
    [][EngineStep =>
         LET op == instr \div 4096
             isStore == mpc = "exec" /\ op \in {3, 7, 11}
             isLoad == mpc = "exec" /\ op \in {2, 6, 10}
             isInput == mpc = "in_read" \/ (mpc = "exec" /\ op = 15 /\ instr % 256 = 32)
             polled == MR_KBSR \in reads'
             dst == (instr \div 512) % 8
         IN  /\ \A a \in DOMAIN cells \cup DOMAIN cells' :
                   Cell(cells', a) # Cell(cells, a) =>
                       \/ isStore /\ a = StoreTarget
                       \/ a \in {MR_KBSR, MR_KBDR} /\ polled
             /\ (isStore =>
                    /\ Cell(cells', StoreTarget) = registers[dst]
                    /\ registers' = registers /\ out' = out)
             /\ (isLoad => \A r \in 0..9 \ {dst, R_COND} : registers'[r] = registers[r])
             /\ (polled /\ (mpc = "fetch" \/ isStore \/ isLoad) =>
                    Cell(cells', MR_KBSR) = Readable /\ poll'.done)
             /\ (~polled /\ ~isInput =>
                    kq' = kq /\ ubuf' = ubuf /\ poll' = poll)]_vars

\* a store to 0xFE00 stored the value and nothing else happened: the pending
\* character is still pending and the keyboard was not polled
C15_Witness ==
    /\ lastExec.instr = 29248 /\ lastExec.res = Ok
    /\ Cell(cells, MR_KBSR) = 65024 /\ Cell(cells, MR_KBDR) = 0
    /\ kq # << >> /\ ~poll.done /\ reads = {}

(* C16: executing BR sets PC to (PC + sext9(offset)) mod 65536 exactly when
   the mask in bits 11-9 ANDed with the condition-flag register is non-zero,
   and otherwise leaves PC at the already-incremented value; no other
   register, no flag and no memory cell changes.  A mask of 000 (the word
   0x0000 included) never branches, a mask of 111 always does. *)
C16_BranchOnMask ==
    [][ExecStep(0) =>
         LET mask == (instr \div 512) % 8
             taken == BitAnd(mask, registers[R_COND]) # 0
         IN  /\ exitedBy' = "none" /\ mpc' = "fetch"
             /\ registers' = [registers EXCEPT
                                 ![R_PC] = IF taken THEN PcRelative ELSE @]
             /\ cells' = cells
             /\ (mask = 0 => registers'[R_PC] = registers[R_PC])
             /\ (mask = 7 => registers'[R_PC] = PcRelative)]_vars

\* a BR with mask 111 and offset -4 at 0x3004 was taken with flag POSITIVE
C16_Witness ==
    /\ lastExec.instr = 4092 /\ lastExec.res = Ok /\ mpc = "fetch"
    /\ registers[R_COND] = FL_POS /\ registers[R_PC] = 12289

(* C17, as claimed: executing opcode 0100 sets R7 to the address of the next
   instruction and PC to the value register b held before the instruction
   (mode bit 0, every b in 0..7) or to (PC + sext11(offset)) mod 65536 (mode
   bit 1); it changes no other register, no flag and no memory cell. *)
C17_JsrLinksAndJumps ==
    [][ExecStep(4) =>
         LET long == (instr \div 2048) % 2 = 1
             b == (instr \div 64) % 8
             target == IF long
                          THEN (registers[R_PC] + Sext(instr % 2048, 11)) % 65536
                          ELSE registers[b]
         IN  /\ exitedBy' = "none" /\ mpc' = "fetch"
             /\ registers' = [registers EXCEPT ![R_R7] = registers[R_PC],
                                               ![R_PC] = target]
             /\ cells' = cells]_vars

\* the low bytes of the words from address addr up to the first zero word,
\* advancing modulo 65536
RECURSIVE LowBytes(_)
LowBytes(addr) ==
    IF Cell(cells, addr) = 0 THEN << >>
    ELSE << Cell(cells, addr) % 256 >> \o LowBytes((addr + 1) % 65536)

(* C18, as claimed: TRAP PUTS with R0 = a raises no fault for any start
   address, also when the scan passes 0xFFFF; it writes the low byte of each
   word from a up to the first zero word and changes no register but R7. *)
C18_PutsScansToZero ==
    [][(ExecStep(15) /\ instr % 256 = 34) =>
         /\ exitedBy' = "none" /\ mpc' \in {"fetch", "restore"}
         /\ registers' = [registers EXCEPT ![R_R7] = registers[R_PC]]
         /\ (MR_KBSR \notin reads' =>
                out' = out \o LowBytes(registers[R_R0]))]_vars

(* C19: for every width k in {5, 6, 9, 11} and every k-bit value x,
   sign_extend(x, k) masked back to its low k bits is x, and the extended
   value is x when bit k-1 of x is 0 and x + 65536 - 2^k when it is 1. *)
C19_SignExtendRoundTrip ==
    (arg.fn = "sign_extend" /\ val # -1) =>
        /\ val \in 0..65535
        /\ BitAnd(val, Pow2(arg.k) - 1) = arg.x
        /\ val = IF (arg.x \div Pow2(arg.k - 1)) % 2 = 0
                     THEN arg.x
                     ELSE arg.x + 65536 - Pow2(arg.k)

\* the 9-bit field 0x100 (bit 8 alone) extends to 0xFF00
C19_Witness ==
    /\ arg = [fn |-> "sign_extend", x |-> 256, k |-> 9]
    /\ val = 65280

(* C20: for every 16-bit value v of a register, update_flags yields ZERO if
   and only if v = 0, NEGATIVE if and only if v # 0 and bit 15 of v is 1,
   POSITIVE otherwise: exactly one of the three for every v in 0..65535. *)
C20_FlagDerivation ==
    (arg.fn = "update_flags" /\ val # -1) =>
        /\ (val = FL_ZRO <=> arg.x = 0)
        /\ (val = FL_NEG <=> (arg.x # 0 /\ (arg.x \div 32768) % 2 = 1))
        /\ (val = FL_POS <=> (arg.x # 0 /\ (arg.x \div 32768) % 2 = 0))
        /\ Cardinality({f \in {FL_POS, FL_ZRO, FL_NEG} : f = val}) = 1

\* the smallest negative value, 0x8000 in R7, yields NEGATIVE
C20_Witness ==
    /\ arg = [fn |-> "update_flags", x |-> 32768, k |-> R_R7]
    /\ val = FL_NEG

=============================================================================
